---- MODULE Spec2Model ----
(***************************************************************************)
(* Portfolio rebalancing (src/src/lib.rs): Stock, PortfolioTarget,         *)
(* Portfolio::rebalance_portfolio and RebalanceSuggestion.                 *)
(*                                                                         *)
(* Decimal values (prices, ratios, balances) are modelled as integers; all *)
(* values drawn below are whole numbers, on which rust_decimal's +, * and  *)
(* comparison are exact.  The one inexact operation of the code, the       *)
(* division followed by trunc() and to_usize(), is modelled on the exact   *)
(* rational total * ratio / (100 * price): see TargetUnits.                *)
(***************************************************************************)
EXTENDS Integers, Sequences, FiniteSets

(***************************************************************************)
(* Bounds of the model and the values its inputs are drawn from.           *)
(***************************************************************************)
MaxStocks == 3

MaxTargets == 2

\* Asset names; "meta" and "META" differ only in case.
HeldNames == {"META", "meta", "APPL"}

TargetNames == {"META", "APPL"}

\* Stock::new accepts any Decimal, negative ones included.
HeldPrices == {-10, 0, 10, 30}

\* Prices of the target entries; 0 is the price on which line 69 divides by zero.
TargetPrices == {0, 10, 30}

Ratios == {-10, 0, 25, 50, 100, 110}

(***************************************************************************)
(* State.                                                                  *)
(***************************************************************************)
VARIABLES
    pc,          \* "start" | "rejected" | "holding" | "returned" | "panicked"
    input,       \* the Vec<(Decimal, Stock)> last handed to try_from_vec
    result,      \* "none" | "Ok" | "ErrSum" | "ErrNonPositive"
    allocation,  \* PortfolioTarget.targets of Portfolio.allocation
    stocks,      \* Portfolio.stocks
    suggestion   \* the RebalanceSuggestion returned: [to_buy, to_sell]

vars == <<pc, input, result, allocation, stocks, suggestion>>

(***************************************************************************)
(* Stock.                                                                  *)
(***************************************************************************)
\* Stock::new: stores the price as given, with no validation.
StockNew(name, price) == [name |-> name, current_price |-> price]

(***************************************************************************)
(* HashMap<&str, usize> as a function whose domain is the key set.         *)
(***************************************************************************)
EmptyMap == [k \in {} |-> 0]

\* HashMap::insert: adds the key or overwrites its value.
Insert(map, key, value) ==
    [k \in (DOMAIN map) \cup {key} |-> IF k = key THEN value ELSE map[k]]

(***************************************************************************)
(* PortfolioTarget.                                                        *)
(***************************************************************************)
RECURSIVE SumRatios(_)
\* stocks.iter().map(|stock| stock.0).sum::<Decimal>()
SumRatios(entries) ==
    IF entries = <<>> THEN 0
    ELSE entries[1][1] + SumRatios(Tail(entries))

\* stocks.iter().any(|stock| stock.0 <= Decimal::ZERO)
AnyNonPositive(entries) ==
    \E i \in 1..Len(entries) : entries[i][1] <= 0

\* Variant of try_from_vec testing stock.0 < 0: a zero ratio is let through.
TryFromVecResult_LtZero(entries) ==
    IF SumRatios(entries) # 100 THEN "ErrSum"
    ELSE IF \E i \in 1..Len(entries) : entries[i][1] < 0 THEN "ErrNonPositive"
    ELSE "Ok"

\* PortfolioTarget::try_from_vec: the sum is checked first, then positivity.
TryFromVecResult(entries) ==
    IF SumRatios(entries) # 100 THEN "ErrSum"
    ELSE IF AnyNonPositive(entries) THEN "ErrNonPositive"
    ELSE "Ok"

\* PortfolioTarget::new: one entry of 100 percent.
PortfolioTargetNew(stock) == << <<100, stock>> >>

\* Case folding of the names in use.
Lower(name) == IF name = "META" THEN "meta" ELSE name

\* Variant of contains_key comparing names without regard to case.
ContainsKey_IgnoreCase(targets, name) ==
    \E i \in 1..Len(targets) : Lower(targets[i][2].name) = Lower(name)

\* PortfolioTarget::contains_key: exact string equality on the name.
ContainsKey(targets, name) ==
    \E i \in 1..Len(targets) : targets[i][2].name = name

(***************************************************************************)
(* Portfolio::rebalance_portfolio.                                         *)
(***************************************************************************)
\* Lines 42-45: the number of held positions per name.
CurrentUnits(held) ==
    [n \in {held[i].name : i \in 1..Len(held)} |->
        Cardinality({i \in 1..Len(held) : held[i].name = n})]

RECURSIVE TotalBalance(_)
\* Line 47: the sum of the held positions' own prices.
TotalBalance(held) ==
    IF held = <<>> THEN 0
    ELSE held[1].current_price + TotalBalance(Tail(held))

\* Variant without the early return of lines 50-52.
IsZero_Never(d) == FALSE

\* Decimal::is_zero
IsZero(d) == d = 0

\* Lines 55-59: every held name outside the allocation is sold in full.
SellDropped(targets, current_units) ==
    [n \in {k \in DOMAIN current_units : ~ContainsKey(targets, k)} |->
        current_units[n]]

Abs(x) == IF x < 0 THEN -x ELSE x

\* Decimal::trunc of the quotient num / den (den # 0): rounds toward zero.
TruncDiv(num, den) ==
    IF (num < 0) = (den < 0)
    THEN Abs(num) \div Abs(den)
    ELSE -(Abs(num) \div Abs(den))

\* .to_usize().unwrap_or(0): a negative value converts to None, hence 0.
ToUsizeOrZero(q) == IF q < 0 THEN 0 ELSE q

\* Lines 66-72, for price # 0:
\* (total_balance * (ratio / 100) / price_per_unit).trunc().to_usize().unwrap_or(0)
TargetUnits(total, ratio, price) ==
    ToUsizeOrZero(TruncDiv(total * ratio, 100 * price))

\* Line 75: *current_units.get(name).unwrap_or(&0)
HeldUnits(current_units, name) ==
    IF name \in DOMAIN current_units THEN current_units[name] ELSE 0

\* Variant of lines 77-83 with a plain else: equal counts insert a sale of 0.
SuggestFor_SellOnEqual(sug, name, target_units, held_units) ==
    IF target_units > held_units
    THEN [sug EXCEPT !.to_buy = Insert(@, name, target_units - held_units)]
    ELSE [sug EXCEPT !.to_sell = Insert(@, name, held_units - target_units)]

\* Lines 77-83: buy the difference, sell the difference, or nothing.
SuggestFor(sug, name, target_units, held_units) ==
    IF target_units > held_units
    THEN [sug EXCEPT !.to_buy = Insert(@, name, target_units - held_units)]
    ELSE IF target_units < held_units
    THEN [sug EXCEPT !.to_sell = Insert(@, name, held_units - target_units)]
    ELSE sug

RECURSIVE TargetLoop(_, _, _, _, _)
\* Lines 61-84: the allocation's entries in order, from entry i on.  The
\* Decimal division of line 69 panics ("Division by zero") on a zero price.
TargetLoop(targets, i, total, current_units, sug) ==
    IF i > Len(targets) THEN sug
    ELSE IF targets[i][2].current_price = 0
    THEN [sug EXCEPT !.panicked = TRUE]
    ELSE TargetLoop(targets, i + 1, total, current_units,
             SuggestFor(sug, targets[i][2].name,
                 TargetUnits(total, targets[i][1], targets[i][2].current_price),
                 HeldUnits(current_units, targets[i][2].name)))

\* RebalanceSuggestion::default()
DefaultSuggestion == [to_buy |-> EmptyMap, to_sell |-> EmptyMap, panicked |-> FALSE]

\* Portfolio::rebalance_portfolio as a function of the portfolio's fields.
RebalanceResult(held, targets) ==
    IF IsZero(TotalBalance(held)) THEN DefaultSuggestion
    ELSE TargetLoop(targets, 1, TotalBalance(held), CurrentUnits(held),
             [DefaultSuggestion EXCEPT
                 !.to_sell = SellDropped(targets, CurrentUnits(held))])

(***************************************************************************)
(* Operations.                                                             *)
(***************************************************************************)
Entries ==
    {<<r, StockNew(n, p)>> : r \in Ratios, n \in TargetNames, p \in TargetPrices}

EntrySeqs == UNION {[1..k -> Entries] : k \in 0..MaxTargets}

Init ==
    /\ pc = "start"
    /\ input = <<>>
    /\ result = "none"
    /\ allocation = <<>>
    /\ stocks = <<>>
    /\ suggestion = [to_buy |-> EmptyMap, to_sell |-> EmptyMap]

\* PortfolioTarget::try_from_vec(entries)
TryFromVec(entries) ==
    /\ pc = "start"
    /\ input' = entries
    /\ result' = TryFromVecResult(entries)
    /\ IF result' = "Ok"
       THEN allocation' = entries /\ pc' = "holding"
       ELSE allocation' = allocation /\ pc' = "rejected"
    /\ UNCHANGED <<stocks, suggestion>>

\* PortfolioTarget::new(Stock::new(name, price))
TargetNew(name, price) ==
    /\ pc = "start"
    /\ allocation' = PortfolioTargetNew(StockNew(name, price))
    /\ pc' = "holding"
    /\ UNCHANGED <<input, result, stocks, suggestion>>

\* An order on Stock values, used only to enumerate each multiset of
\* holdings once: lines 42-47 count and sum the positions, so the order in
\* which they were pushed does not reach the suggestion.
NameRank(name) == IF name = "META" THEN 0 ELSE IF name = "meta" THEN 1 ELSE 2

StockRank(s) == NameRank(s.name) * 1000 + s.current_price

\* stocks.push(Stock::new(name, price)) while the portfolio is put together
PushStock(name, price) ==
    /\ pc = "holding"
    /\ Len(stocks) < MaxStocks
    /\ stocks # <<>> => StockRank(stocks[Len(stocks)]) <= StockRank(StockNew(name, price))
    /\ stocks' = Append(stocks, StockNew(name, price))
    /\ UNCHANGED <<pc, input, result, allocation, suggestion>>

\* portfolio.rebalance_portfolio()
RebalancePortfolio ==
    /\ pc = "holding"
    /\ LET r == RebalanceResult(stocks, allocation) IN
         IF r.panicked
         THEN pc' = "panicked" /\ suggestion' = suggestion
         ELSE /\ pc' = "returned"
              /\ suggestion' = [to_buy |-> r.to_buy, to_sell |-> r.to_sell]
    /\ UNCHANGED <<input, result, allocation, stocks>>

Next ==
    \/ pc = "start" /\ \E entries \in EntrySeqs : TryFromVec(entries)
    \/ pc = "start" /\ \E n \in TargetNames, p \in TargetPrices : TargetNew(n, p)
    \/ pc = "holding" /\ \E n \in HeldNames, p \in HeldPrices : PushStock(n, p)
    \/ RebalancePortfolio

Spec == Init /\ [][Next]_vars

(***************************************************************************)
(* Vocabulary of the properties below.                                     *)
(***************************************************************************)
Returned == pc = "returned"

Total == TotalBalance(stocks)

\* The number of held positions with this name.
Held(n) == Cardinality({i \in 1..Len(stocks) : stocks[i].name = n})

HeldNameSet == {stocks[i].name : i \in 1..Len(stocks)}

InAllocation(n) == \E i \in 1..Len(allocation) : allocation[i][2].name = n

Bought(n) ==
    IF n \in DOMAIN suggestion.to_buy THEN suggestion.to_buy[n] ELSE 0

Sold(n) ==
    IF n \in DOMAIN suggestion.to_sell THEN suggestion.to_sell[n] ELSE 0

\* The units of n held once the suggestion is carried out.
After(n) == Held(n) + Bought(n) - Sold(n)

\* floor(total_value * percentage / 100 / price) for entry i, price > 0, Total > 0.
FloorUnits(i) == (Total * allocation[i][1]) \div (100 * allocation[i][2].current_price)

DistinctTargetNames ==
    \A i, j \in 1..Len(allocation) :
        i # j => allocation[i][2].name # allocation[j][2].name

PositiveTargetPrices ==
    \A i \in 1..Len(allocation) : allocation[i][2].current_price > 0

\* Every held position of a target asset carries that target entry's price.
HeldAtTargetPrice ==
    \A k \in 1..Len(stocks), i \in 1..Len(allocation) :
        stocks[k].name = allocation[i][2].name
            => stocks[k].current_price = allocation[i][2].current_price

NoNegativePrice ==
    /\ \A k \in 1..Len(stocks) : stocks[k].current_price >= 0
    /\ \A i \in 1..Len(allocation) : allocation[i][2].current_price >= 0

RECURSIVE SumMap(_)
\* The sum of a function's values over its (finite) domain.
SumMap(f) ==
    IF DOMAIN f = {} THEN 0
    ELSE LET k == CHOOSE x \in DOMAIN f : TRUE
         IN f[k] + SumMap([x \in (DOMAIN f) \ {k} |-> f[x]])

\* The price of the first target entry named n.
TargetPriceOf(n) ==
    allocation[CHOOSE i \in 1..Len(allocation) : allocation[i][2].name = n][2].current_price

\* The sum of the recorded prices of the held positions named n.
HeldValue(n) ==
    SumMap([k \in {x \in 1..Len(stocks) : stocks[x].name = n} |->
               stocks[k].current_price])

BuyCost ==
    SumMap([n \in DOMAIN suggestion.to_buy |->
               suggestion.to_buy[n] * TargetPriceOf(n)])

\* A dropped asset is sold whole, each unit at its recorded price; a target
\* asset's units are sold at the price they share with the target entry.
SellProceeds ==
    SumMap([n \in DOMAIN suggestion.to_sell |->
               IF InAllocation(n)
               THEN suggestion.to_sell[n] * TargetPriceOf(n)
               ELSE HeldValue(n)])

(***************************************************************************)
(* Properties.                                                             *)
(***************************************************************************)

\* C1: try_from_vec returns Ok exactly when the ratios sum to 100 and every
\* ratio is > 0; an accepted allocation holds the supplied pairs in the
\* supplied order, and a rejected input yields no allocation.
C1_TryFromVecIffValid ==
    result # "none" =>
        /\ (result = "Ok") <=>
               (/\ SumRatios(input) = 100
                /\ \A i \in 1..Len(input) : input[i][1] > 0)
        /\ SumRatios(input) # 100 => result = "ErrSum"
        /\ result = "Ok" => allocation = input /\ pc # "rejected"
        /\ result # "Ok" => allocation = <<>> /\ pc = "rejected"

C1_Witness ==
    /\ result = "Ok"
    /\ Len(input) = 2
    /\ allocation = input

\* C2: the names in to_buy and the names in to_sell of a returned suggestion
\* are disjoint, for every accepted allocation (duplicate names included).
C2_KeysDisjoint ==
    Returned => (DOMAIN suggestion.to_buy) \cap (DOMAIN suggestion.to_sell) = {}

\* C2 restricted to allocations whose names are pairwise distinct.
C2_KeysDisjoint_DistinctNames ==
    Returned /\ DistinctTargetNames =>
        (DOMAIN suggestion.to_buy) \cap (DOMAIN suggestion.to_sell) = {}

\* C3: never overshoot. With total_value > 0 and target prices > 0, after
\* the suggestion is applied every target entry's unit count times its price
\* is at most total_value * percentage / 100, and one more unit exceeds it.
C3_NeverOvershoot ==
    Returned /\ Total > 0 /\ PositiveTargetPrices =>
        \A i \in 1..Len(allocation) :
            LET n == allocation[i][2].name
                price == allocation[i][2].current_price
            IN /\ After(n) * price * 100 <= Total * allocation[i][1]
               /\ (After(n) + 1) * price * 100 > Total * allocation[i][1]

\* C3 restricted to allocations whose names are pairwise distinct.
C3_NeverOvershoot_DistinctNames ==
    Returned /\ Total > 0 /\ PositiveTargetPrices /\ DistinctTargetNames =>
        \A i \in 1..Len(allocation) :
            LET n == allocation[i][2].name
                price == allocation[i][2].current_price
            IN /\ After(n) * price * 100 <= Total * allocation[i][1]
               /\ (After(n) + 1) * price * 100 > Total * allocation[i][1]

\* C4: for every target entry with price > 0 and total_value > 0 the
\* suggestion buys target_units - held when target_units > held, sells
\* held - target_units when target_units < held, and has no entry for the
\* name when they are equal.
C4_BuySellDifference ==
    Returned /\ Total > 0 =>
        \A i \in 1..Len(allocation) :
            allocation[i][2].current_price > 0 =>
                LET n == allocation[i][2].name
                    tu == FloorUnits(i)
                IN /\ tu > Held(n) =>
                          /\ n \in DOMAIN suggestion.to_buy
                          /\ suggestion.to_buy[n] = tu - Held(n)
                   /\ tu < Held(n) =>
                          /\ n \in DOMAIN suggestion.to_sell
                          /\ suggestion.to_sell[n] = Held(n) - tu
                   /\ tu = Held(n) =>
                          /\ n \notin DOMAIN suggestion.to_buy
                          /\ n \notin DOMAIN suggestion.to_sell

\* C4 restricted to allocations whose names are pairwise distinct.
C4_BuySellDifference_DistinctNames ==
    Returned /\ Total > 0 /\ DistinctTargetNames =>
        \A i \in 1..Len(allocation) :
            allocation[i][2].current_price > 0 =>
                LET n == allocation[i][2].name
                    tu == FloorUnits(i)
                IN /\ tu > Held(n) =>
                          /\ n \in DOMAIN suggestion.to_buy
                          /\ suggestion.to_buy[n] = tu - Held(n)
                          /\ n \notin DOMAIN suggestion.to_sell
                   /\ tu < Held(n) =>
                          /\ n \in DOMAIN suggestion.to_sell
                          /\ suggestion.to_sell[n] = Held(n) - tu
                          /\ n \notin DOMAIN suggestion.to_buy
                   /\ tu = Held(n) =>
                          /\ n \notin DOMAIN suggestion.to_buy
                          /\ n \notin DOMAIN suggestion.to_sell

\* C5: full exit on a dropped asset. When total_value is not zero, every
\* held name that no target entry carries (exact match) is in to_sell with
\* the number of held positions of that name, and is not in to_buy.
C5_FullExitOnDropped ==
    Returned /\ Total # 0 =>
        \A n \in HeldNameSet :
            ~InAllocation(n) =>
                /\ n \in DOMAIN suggestion.to_sell
                /\ suggestion.to_sell[n] = Held(n)
                /\ n \notin DOMAIN suggestion.to_buy

C5_Witness ==
    /\ Returned
    /\ Total # 0
    /\ Held("meta") = 2
    /\ InAllocation("META")
    /\ ~InAllocation("meta")
    /\ "meta" \in DOMAIN suggestion.to_sell
    /\ suggestion.to_sell["meta"] = 2

\* C6: rebalance_portfolio never fails; a target entry with price zero
\* (total_value not zero) is given target_units 0, so a held asset with a
\* zero target price is sold in full and an unheld one gets no entry.
C6_NeverFails ==
    /\ pc # "panicked"
    /\ Returned /\ Total # 0 =>
           \A i \in 1..Len(allocation) :
               allocation[i][2].current_price = 0 =>
                   LET n == allocation[i][2].name
                   IN /\ Held(n) > 0 =>
                             /\ n \in DOMAIN suggestion.to_sell
                             /\ suggestion.to_sell[n] = Held(n)
                      /\ Held(n) = 0 =>
                             /\ n \notin DOMAIN suggestion.to_buy
                             /\ n \notin DOMAIN suggestion.to_sell

\* C7: whenever total_value is zero, rebalance_portfolio returns (does not
\* fail) and both to_buy and to_sell are empty, whatever the allocation.
C7_ZeroTotalEmpty ==
    pc \in {"returned", "panicked"} /\ Total = 0 =>
        /\ Returned
        /\ suggestion.to_buy = EmptyMap
        /\ suggestion.to_sell = EmptyMap

C7_Witness ==
    /\ Returned
    /\ Total = 0
    /\ stocks # <<>>
    /\ \E n \in HeldNameSet : ~InAllocation(n)
    /\ \E i \in 1..Len(allocation) : allocation[i][2].current_price = 0
    /\ suggestion.to_buy = EmptyMap
    /\ suggestion.to_sell = EmptyMap

\* C8: no Stock with a negative current_price exists, as a holding or as a
\* target asset.
C8_NoNegativePrice == NoNegativePrice

\* C9: every unit count in to_buy or to_sell of a returned suggestion is
\* at least 1.
C9_CountsPositive ==
    Returned =>
        /\ \A n \in DOMAIN suggestion.to_buy : suggestion.to_buy[n] >= 1
        /\ \A n \in DOMAIN suggestion.to_sell : suggestion.to_sell[n] >= 1

C9_Witness ==
    /\ Returned
    /\ DOMAIN suggestion.to_buy # {}
    /\ DOMAIN suggestion.to_sell # {}
    /\ \E i \in 1..Len(allocation) :
           /\ allocation[i][2].current_price > 0
           /\ Total > 0
           /\ FloorUnits(i) = Held(allocation[i][2].name)

\* C10: self-financing. With pairwise distinct target names, target prices
\* > 0 and target assets held at their target price, the cost of the
\* suggested buys is at most the proceeds of the suggested sells.
C10_SelfFinancing ==
    Returned /\ DistinctTargetNames /\ PositiveTargetPrices /\ HeldAtTargetPrice =>
        BuyCost <= SellProceeds

\* C10 restricted to portfolios without a negative price.
C10_SelfFinancing_NoNegativePrice ==
    Returned /\ DistinctTargetNames /\ PositiveTargetPrices /\ HeldAtTargetPrice
        /\ NoNegativePrice =>
            BuyCost <= SellProceeds

====
